---- MODULE Spec2Model ----
(***************************************************************************)
(* A model of path-tree (src/src/lib.rs): a radix tree of route patterns   *)
(* with static, parameter (':') and catch-all ('*') nodes.                 *)
(*                                                                         *)
(* Characters are one-character strings, character vectors (Vec<char>)    *)
(* are sequences of them.  Option<T> is a sequence of length at most one:  *)
(* None is <<>> and Some(x) is <<x>>.  Indices of the source are 0-based;  *)
(* the operators below keep the source's 0-based arithmetic and add one    *)
(* where a TLA+ sequence is indexed.                                       *)
(***************************************************************************)
EXTENDS Integers, Sequences, FiniteSets, TLC

VARIABLES
    tree,    \* PathTree.tree: the root node
    routes,  \* the registered patterns, each with its last payload: <<pattern, payload>>
    last,    \* the last call: its op, path and payload, and the payload the
             \* pattern had before (prev)
    result   \* what the last Find returned (None after an Insert)

vars == <<tree, routes, last, result>>

-----------------------------------------------------------------------------
(* Option and vector helpers *)

None == <<>>
Some(x) == <<x>>
IsSome(o) == Len(o) > 0
IsNone(o) == Len(o) = 0

Min(S) == CHOOSE x \in S : \A y \in S : x <= y

\* Vec::split_off(i): the tail from 0-based index i; Take is what stays.
SplitOff(s, i) == SubSeq(s, i + 1, Len(s))
Take(s, i) == SubSeq(s, 1, i)

\* Vec::insert(i, x)
VecInsert(s, i, x) == Take(s, i) \o <<x>> \o SplitOff(s, i)

-----------------------------------------------------------------------------
(* Node metadata and nodes *)

NodeMetadata_new == [key |-> FALSE, kind |-> "Root", data |-> None, params |-> None]

\* radix_tree::Node::new(path, data): the root, holding Some(data)
Node_new(path, data) == [path |-> path, data |-> Some(data), indices |-> <<>>, nodes |-> <<>>]

PathTree_new(path, data) == Node_new(path, data)

-----------------------------------------------------------------------------
(* Insert *)

\* The closure as it would be if a new child always went last.
pos_append(l, c, indices) == l
\* The closure given to add_node_with: the position of a new child keyed c
\* among the l existing keys ("Add '/' ':' '*' to last").
pos(l, c, indices) ==
    LET j0 == l
        j1 == IF indices[j0] = "*" THEN j0 - 1 ELSE j0
        j2 == IF 0 < j1 /\ indices[j1] = ":" THEN j1 - 1 ELSE j1
        j3 == IF 0 < j2 /\ indices[j2] = "/" THEN j2 - 1 ELSE j2
    IN  IF l = 0 THEN 0
        ELSE IF c = "*" THEN j0
        ELSE IF c = ":" THEN j1
        ELSE IF c = "/" THEN j2
        ELSE j3

\* The length of the longest common prefix of two vectors.
CommonLen(a, b) ==
    LET m == IF Len(a) < Len(b) THEN Len(a) ELSE Len(b)
    IN  Cardinality({k \in 1..m : \A j \in 1..k : a[j] = b[j]})

\* The first 0-based position of key c in indices, or -1.
KeyIndex(indices, c) ==
    LET S == {j \in 0..(Len(indices) - 1) : indices[j + 1] = c}
    IN  IF S = {} THEN -1 ELSE Min(S)

RECURSIVE insert_with(_, _, _, _)
RECURSIVE add_node_with(_, _, _, _, _)

\* Node::insert_with: merge path into this node, splitting its label at the
\* end of the common prefix.  Returns the new node and the position, below
\* it, of the node reached (a sequence of 1-based child positions).
insert_with(self, path, data, force_update) ==
    LET pl == Len(path)
        sl == Len(self.path)
        i == CommonLen(path, self.path)
        child == [path |-> SplitOff(self.path, i), data |-> self.data,
                  indices |-> self.indices, nodes |-> self.nodes]
        split == IF i < sl
                 THEN [path |-> Take(self.path, i), data |-> None,
                       indices |-> <<child.path[1]>>, nodes |-> <<child>>]
                 ELSE self
    IN  IF pl = 0
        THEN [node |-> IF force_update THEN [self EXCEPT !.data = data] ELSE self,
              cur |-> <<>>]
        ELSE IF i = pl
        THEN [node |-> IF force_update THEN [split EXCEPT !.data = data] ELSE split,
              cur |-> <<>>]
        ELSE add_node_with(split, path, data, i, force_update)

\* add_node_with as it would be without the lookup of the key: every call
\* adds a new child.
add_node_with_no_lookup(self, path, data, i, force_update) ==
    LET l == Len(self.indices)
        c == path[i + 1]
        index == pos(l, c, self.indices)
        fresh == [path |-> SplitOff(path, i), data |-> data, indices |-> <<>>, nodes |-> <<>>]
    IN  [node |-> [self EXCEPT !.indices = VecInsert(self.indices, index, c),
                               !.nodes = VecInsert(self.nodes, index, fresh)],
         cur |-> <<index + 1>>]
\* Node::add_node_with: descend into the child keyed path[i], or add a new
\* child at the position the closure chooses.
add_node_with(self, path, data, i, force_update) ==
    LET l == Len(self.indices)
        c == path[i + 1]
        j == KeyIndex(self.indices, c)
        r == insert_with(self.nodes[j + 1], SplitOff(path, i), data, force_update)
        index == pos(l, c, self.indices)
        fresh == [path |-> SplitOff(path, i), data |-> data, indices |-> <<>>, nodes |-> <<>>]
    IN  IF j >= 0
        THEN [node |-> [self EXCEPT !.nodes[j + 1] = r.node], cur |-> <<j + 1>> \o r.cur]
        ELSE [node |-> [self EXCEPT !.indices = VecInsert(self.indices, index, c),
                                    !.nodes = VecInsert(self.nodes, index, fresh)],
              cur |-> <<index + 1>>]

\* "node = node.add_node_with(...)": the call on the node the cursor names.
RECURSIVE AddAt(_, _, _, _, _)
AddAt(node, cur, buf, data, ended) ==
    IF cur = <<>>
    THEN add_node_with(node, buf, data, 0, ended)
    ELSE LET r == AddAt(node.nodes[Head(cur)], Tail(cur), buf, data, ended)
         IN  [node |-> [node EXCEPT !.nodes[Head(cur)] = r.node],
              cur |-> <<Head(cur)>> \o r.cur]

\* path.trim_start_matches('/')
RECURSIVE TrimStart(_)
TrimStart(p) == IF Len(p) > 0 /\ p[1] = "/" THEN TrimStart(Tail(p)) ELSE p

\* The ':' token's end: the loop of lines 79-94.
ParamCut(buf) ==
    LET n == Len(buf)
        stops == {i \in 0..n : \/ i = n
                               \/ (i > 2 /\ buf[i + 1] \in {":", "*"})
                               \/ buf[i + 1] = "/"}
        i == Min(stops)
    IN  IF i < n /\ i > 2 /\ buf[i + 1] \in {":", "*"} THEN i - 1 ELSE i

\* The static token's end: the loop of lines 106-114.
StaticCut(buf) ==
    LET n == Len(buf)
    IN  Min({i \in 0..n : i = n \/ buf[i + 1] \in {":", "*"}})

\* One token of the pattern: the node label (buf after the split_offs), the
\* rest of the pattern, the kind and the parameter name.
Token(buf) ==
    IF buf[1] = "*"
    THEN [buf |-> <<"*">>, next |-> <<>>, kind |-> "CatchAll", name |-> Some(SplitOff(buf, 1))]
    ELSE IF buf[1] = ":"
    THEN LET cut == ParamCut(buf)
         IN  [buf |-> <<":">>, next |-> SplitOff(buf, cut), kind |-> "Parameter",
              name |-> Some(SubSeq(buf, 2, cut))]
    ELSE LET cut == StaticCut(buf)
         IN  [buf |-> Take(buf, cut), next |-> SplitOff(buf, cut), kind |-> "Static",
              name |-> None]

\* params.push(name)
PushParam(params, name) ==
    IF IsNone(name) THEN params
    ELSE IF IsSome(params) THEN Some(Append(params[1], name[1]))
    ELSE Some(<<name[1]>>)

\* The metadata of a token's node.
TokenMeta(kind, ended, params, data) ==
    [key |-> ended, kind |-> kind,
     data |-> IF ended THEN Some(data) ELSE None,
     params |-> IF ended THEN params ELSE None]

\* The while loop of insert as it would be if add_node_with were never asked
\* to update an existing node.
RECURSIVE insert_loop_no_update(_, _, _, _, _)
insert_loop_no_update(t, cur, buf, params, data) ==
    IF Len(buf) = 0 THEN [node |-> t, cur |-> cur]
    ELSE LET tok == Token(buf)
             ps == PushParam(params, tok.name)
             ended == Len(tok.next) = 0
             meta == TokenMeta(tok.kind, ended, ps, data)
             r == AddAt(t, cur, tok.buf, Some(meta), FALSE)
         IN  insert_loop_no_update(r.node, r.cur, tok.next, ps, data)

\* The while loop of insert.  Returns the tree and the position of the node
\* the pattern ends at.
RECURSIVE insert_loop(_, _, _, _, _)
insert_loop(t, cur, buf, params, data) ==
    IF Len(buf) = 0 THEN [node |-> t, cur |-> cur]
    ELSE LET tok == Token(buf)
             ps == PushParam(params, tok.name)
             ended == Len(tok.next) = 0
             meta == TokenMeta(tok.kind, ended, ps, data)
             r == AddAt(t, cur, tok.buf, Some(meta), ended)
         IN  insert_loop(r.node, r.cur, tok.next, ps, data)

\* The root case as it would be if the root were not made a key node.
insert_root_no_key(t, data) ==
    IF IsSome(t.data)
    THEN [t EXCEPT !.data = Some([t.data[1] EXCEPT !.data = Some(data)])]
    ELSE t

\* The root case: the payload goes on the root's own metadata.
insert_root(t, data) ==
    IF IsSome(t.data)
    THEN [t EXCEPT !.data = Some([t.data[1] EXCEPT !.key = TRUE, !.data = Some(data)])]
    ELSE t

\* PathTree::insert
insert(t, path, data) ==
    LET buf == TrimStart(path)
    IN  IF Len(buf) = 0 THEN insert_root(t, data)
        ELSE insert_loop(t, <<>>, buf, None, data).node

-----------------------------------------------------------------------------
(* Find *)

\* values.append(d) on an Option<Vec<..>>
AppendValues(values, v) ==
    IF IsNone(v) THEN values
    ELSE IF IsSome(values) THEN Some(values[1] \o v[1])
    ELSE v

\* ParamScan as it would be if a value always ran to the next '/'.
ParamScan_to_slash(bf, indices, n) ==
    LET st == {k \in 0..(Len(bf) - 1) : bf[k + 1] = "/"}
    IN  IF st = {} THEN Len(bf) ELSE Min(st)

\* The inner scan of the parameter branch (lines 253-273): where the value
\* ends when the n-th child is the one tried.
ParamScan(bf, indices, n) ==
    LET l == Len(indices)
        bl == Len(bf)
    IN  IF n < l /\ indices[n + 1] = bf[1]
        THEN LET nd == {k \in 1..(bl - 1) : bf[k + 1] # indices[n + 1]}
             IN  IF nd = {} THEN bl ELSE Min(nd) - 1
        ELSE LET st == {k \in 0..(bl - 1) :
                           \/ (n < l /\ bf[k + 1] = indices[n + 1])
                           \/ bf[k + 1] = "/"}
             IN  IF st = {} THEN bl ELSE Min(st)

\* TrailingSlash as it would be without the catch-all alias: a node ending in
\* '/' is the match only when it is a key node.
TrailingSlash_no_alias(n, values) ==
    IF n.path[Len(n.path)] = "/" /\ IsSome(n.data) /\ ~n.data[1].key
    THEN None
    ELSE Some([node |-> n, values |-> values])

\* The trailing-'/' handling after a static child matched (lines 388-403).
TrailingSlash(n, values) ==
    IF n.path[Len(n.path)] = "/" /\ IsSome(n.data)
    THEN IF n.data[1].key
         THEN Some([node |-> n, values |-> values])
         ELSE IF 0 < Len(n.indices) /\ n.indices[Len(n.indices)] = "*"
         THEN Some([node |-> n.nodes[Len(n.indices)], values |-> values])
         ELSE None
    ELSE Some([node |-> n, values |-> values])

RECURSIVE recognize(_, _)
RECURSIVE recognize_param(_, _, _)
RECURSIVE recognize_static(_, _)

\* The ':' branch: the loop over n = 0 .. l.
recognize_param(buf, node, n) ==
    LET l == Len(node.indices)
        bl == Len(buf)
        i == ParamScan(buf, node.indices, n)
        r == recognize(SplitOff(buf, i), node.nodes[n + 1])
    IN  IF ~(n < l + 1) THEN None
        ELSE IF n = l /\ i = bl
        THEN Some([node |-> node, values |-> Some(<<buf>>)])
        ELSE IF n < l /\ i < bl /\ 0 < i /\ IsSome(r)
        THEN Some([node |-> r[1].node,
                   values |-> AppendValues(Some(<<Take(buf, i)>>), r[1].values)])
        ELSE recognize_param(buf, node, n + 1)

\* The static branch.
recognize_static(path, node) ==
    LET n0 == Len(path)
        o0 == Len(node.path)
        m0 == IF n0 >= o0 THEN CommonLen(path, node.path) ELSE n0
        l0 == Len(node.indices)
        buf == SplitOff(path, m0)
        has_star == node.indices[l0] = "*"
        l1 == IF has_star THEN l0 - 1 ELSE l0
        has_colon == 0 < l1 /\ node.indices[l1] = ":"
        l2 == IF has_colon THEN l1 - 1 ELSE l1
        m == KeyIndex(Take(node.indices, l2), buf[1])
        has_node == m >= 0
        rs == recognize(buf, node.nodes[m + 1])
        rc == recognize(buf, node.nodes[l2 + 1])
        ra == recognize(buf, node.nodes[l1 + 1])
    IN  IF m0 < o0 THEN None
        ELSE IF m0 = o0 /\ m0 = n0 THEN Some([node |-> node, values |-> None])
        ELSE IF l0 = 0 THEN None
        ELSE IF has_node /\ IsSome(rs)
        THEN TrailingSlash(rs[1].node, AppendValues(None, rs[1].values))
        ELSE IF has_colon /\ IsSome(rc)
        THEN Some([node |-> rc[1].node, values |-> AppendValues(None, rc[1].values)])
        ELSE IF has_star /\ IsSome(ra)
        THEN Some([node |-> ra[1].node, values |-> AppendValues(None, ra[1].values)])
        ELSE None

recognize(path, node) ==
    IF Len(path) = 0 THEN None
    ELSE IF node.path[1] = "*"
    THEN Some([node |-> node, values |-> Some(<<path>>)])
    ELSE IF node.path[1] = ":"
    THEN recognize_param(path, node, 0)
    ELSE recognize_static(path, node)

\* find_with as it would be if a path were taken relative to the root: a
\* path that does not begin with '/' is given one.
find_with_relative(t, path) ==
    recognize(IF path = <<>> \/ path[1] # "/" THEN <<"/">> \o path ELSE path, t)
\* PathTree::find_with
find_with(t, path) == recognize(path, t)

\* The zip as it would be if the names were taken from the last one back.
ZipParams_reversed(ps, vs) == [i \in 1..Len(vs) |-> <<ps[Len(vs) + 1 - i], vs[i]>>]

\* The zip of the terminal node's names with the captured values.
ZipParams(ps, vs) == [i \in 1..Len(vs) |-> <<ps[i], vs[i]>>]

\* PathTree::find
find(t, path) ==
    LET r == find_with(t, path)
        node == r[1].node
        values == r[1].values
        data == node.data[1]
        params == IF IsSome(node.data) /\ IsSome(data.params) /\ IsSome(values)
                  THEN Some(ZipParams(data.params[1], values[1]))
                  ELSE None
    IN  IF IsNone(r) THEN None
        ELSE IF IsSome(node.data) /\ ~data.key THEN None
        ELSE Some([node |-> node, params |-> params])

-----------------------------------------------------------------------------
(* The state machine: a tree is built by Insert calls and queried by Find. *)

Slash == <<"/">>

\* The payload a pattern is registered with, as Option.
PayloadOf(P) ==
    LET S == {r \in routes : r[1] = P}
    IN  IF S = {} THEN None ELSE Some((CHOOSE r \in S : TRUE)[2])

Registered == {r[1] : r \in routes}

\* PathTree::new("/", NodeMetadata::new())
Init ==
    /\ tree = PathTree_new(Slash, NodeMetadata_new)
    /\ routes = {}
    /\ last = [op |-> "new", path |-> Slash, data |-> 0, prev |-> None]
    /\ result = None

\* tree.insert(P, v)
Insert(P, v) ==
    /\ tree' = insert(tree, P, v)
    /\ routes' = {r \in routes : r[1] # P} \cup {<<P, v>>}
    /\ last' = [op |-> "insert", path |-> P, data |-> v, prev |-> PayloadOf(P)]
    /\ result' = None

\* A find that leaves a trace in the tree: it marks the root as visited.
Find_marking(p) ==
    /\ result' = find(tree, p)
    /\ last' = [op |-> "find", path |-> p, data |-> 0, prev |-> None]
    /\ tree' = [tree EXCEPT !.data = Some([tree.data[1] EXCEPT !.key = TRUE])]
    /\ UNCHANGED routes
\* tree.find(p)
Find(p) ==
    /\ result' = find(tree, p)
    /\ last' = [op |-> "find", path |-> p, data |-> 0, prev |-> None]
    /\ UNCHANGED <<tree, routes>>

-----------------------------------------------------------------------------
(* Patterns and their concrete paths *)

\* The tokens of a pattern, as insert scans them.
RECURSIVE Tokens(_)
Tokens(buf) ==
    IF Len(buf) = 0 THEN <<>> ELSE <<Token(buf)>> \o Tokens(Token(buf).next)

PatTokens(P) == Tokens(TrimStart(P))

\* The leading '/' run of a pattern, which insert skips.
Leading(P) == Take(P, Len(P) - Len(TrimStart(P)))

\* The positions of the ':' and '*' tokens among a pattern's tokens.
Markers(P) == {i \in 1..Len(PatTokens(P)) : PatTokens(P)[i].kind # "Static"}

\* The i-th token is the k-th marker.
MarkerRank(P, i) == Cardinality({j \in Markers(P) : j <= i})

\* The parameter names of a pattern, in pattern order.
RECURSIVE NamesOf(_)
NamesOf(toks) ==
    IF Len(toks) = 0 THEN <<>>
    ELSE (IF toks[1].kind = "Static" THEN <<>> ELSE <<toks[1].name[1]>>) \o NamesOf(Tail(toks))

Names(P) == NamesOf(PatTokens(P))

\* concretize: each ':name' / '*name' marker replaced by its value.
RECURSIVE Subst(_, _)
Subst(toks, vals) ==
    IF Len(toks) = 0 THEN <<>>
    ELSE IF toks[1].kind = "Static" THEN toks[1].buf \o Subst(Tail(toks), vals)
    ELSE Head(vals) \o Subst(Tail(toks), Tail(vals))

Concretize(P, vals) == Leading(P) \o Subst(PatTokens(P), vals)

\* The bindings a choice of values stands for: None without markers.
Bindings(P, vals) ==
    IF Len(vals) = 0 THEN None
    ELSE Some([i \in 1..Len(vals) |-> <<Names(P)[i], vals[i]>>])

\* The kind of the k-th marker of P.
MarkerKind(P, k) ==
    PatTokens(P)[CHOOSE i \in Markers(P) : MarkerRank(P, i) = k].kind

\* Every choice of values for the markers of P: a parameter's from PV, the
\* catch-all's from CV.
Choices(P, PV, CV) ==
    {vals \in [1..Len(Names(P)) -> PV \cup CV] :
        \A k \in 1..Len(Names(P)) :
            vals[k] \in (IF MarkerKind(P, k) = "CatchAll" THEN CV ELSE PV)}

-----------------------------------------------------------------------------
(* The general specification: short patterns of every kind, at most        *)
(* MaxRoutes of them registered, any payload, any request.                 *)

MaxRoutes == 2

Payloads == {1, 2}

Patterns ==
    { <<"/">>,
      <<"/", "a">>,
      <<"/", "/", "a">>,
      <<"/", ":", "x">>,
      <<"/", ":", "z">>,
      <<"/", ":", "x", "/", ":", "y">>,
      <<"/", ":", "x", ".", ":", "y">>,
      <<"/", "a", "/", "*", "r">> }

\* Values a parameter may be given: empty, plain, with a '.'.
ParamValues == { <<>>, <<"b">>, <<"b", ".">> }

\* Values a catch-all may be given: empty, plain, with a '/'.
CatchValues == { <<>>, <<"b">>, <<"b", "/", "c">> }

ExtraPaths == { <<"/", "/", "/", "b">>, <<"/", "a", "/", "b", "/">> }

Paths ==
    UNION {{Concretize(P, vals) : vals \in Choices(P, ParamValues, CatchValues)} :
              P \in Patterns}
        \cup ExtraPaths

Next ==
    \/ \E P \in Patterns, v \in Payloads :
          /\ P \in Registered \/ Cardinality(routes) < MaxRoutes
          /\ Insert(P, v)
    \/ \E p \in Paths : Find(p)

Spec == Init /\ [][Next]_vars

-----------------------------------------------------------------------------
(* The documented routes: the patterns and requests of the specification's *)
(* examples and of the tests, at most MaxRoutes of them registered.        *)

SrcFilepath == <<"/", "s", "r", "c", "/", "*", "f", "i", "l", "e", "p", "a", "t", "h">>
SrcDir == <<"/", "s", "r", "c", "/">>
RootAll == <<"/", "*">>
UsersIdOrg == <<"/", "u", "s", "e", "r", "s", "/", ":", "i", "d", "/", ":", "o", "r", "g">>
UsersRepos ==
    <<"/", "u", "s", "e", "r", "s", "/", ":", "u", "s", "e", "r", "_", "i", "d",
      "/", "r", "e", "p", "o", "s">>

DocPatterns ==
    { Slash, RootAll, SrcFilepath, SrcDir,
      <<"/", "s", "r", "c", "/", "a">>,
      <<"/", "s", "r", "c", "/", "b">>,
      <<"/", "c", "o", "n", "t", "a", "c", "t">>,
      <<"/", "c", "o">>,
      UsersIdOrg, UsersRepos }

Fundon == <<"f", "u", "n", "d", "o", "n">>

DocPaths ==
    { Slash,
      <<"/", "x">>,
      <<"/", "x", "/", "y">>,
      <<"/", "/">>,
      <<"/", "s", "r", "c">>,
      <<"/", "s", "r", "c", "/">>,
      <<"/", "s", "r", "c", "/", "a">>,
      <<"/", "s", "r", "c", "/", "a", "/", "b">>,
      <<"/", "c", "o", "n", "t", "a", "c", "t">>,
      <<"/", "c", "o">>,
      <<"/", "c", "o", "n">>,
      <<"/", "c", "o", "n", "a">>,
      <<"/", "n", "o">>,
      <<"/", "u", "s", "e", "r", "s", "/">> \o Fundon \o <<"/", "r", "e", "p", "o">>,
      <<"/", "u", "s", "e", "r", "s", "/">> \o Fundon \o <<"/", "r", "e", "p", "o", "s">> }

NextDoc ==
    \/ \E P \in DocPatterns, v \in Payloads :
          /\ P \in Registered \/ Cardinality(routes) < MaxRoutes
          /\ Insert(P, v)
    \/ \E p \in DocPaths : Find(p)

SpecDoc == Init /\ [][NextDoc]_vars

-----------------------------------------------------------------------------
(* The routes of tests::static_and_named_parameter, with a catch-all and a *)
(* parameter under the static prefix; each route has its own payload.      *)

PriorityRoutes ==
    << <<"/", "a", "/", "b", "/", "c">>,
       <<"/", "a", "/", "c", "/", "d">>,
       <<"/", "a", "/", "c", "/", "a">>,
       <<"/", ":", "i", "d", "/", "c", "/", "e">>,
       <<"/", "a", "/", ":", "x">>,
       <<"/", "*", "a", "n", "y">> >>

PriorityPaths ==
    { Slash,
      <<"/", "a", "/">>,
      <<"/", "a", "/", "b", "/", "c">>,
      <<"/", "a", "/", "c", "/", "d">>,
      <<"/", "a", "/", "c", "/", "a">>,
      <<"/", "a", "/", "c", "/", "e">>,
      <<"/", "a", "/", "c">>,
      <<"/", "b", "/", "c", "/", "e">>,
      <<"/", "a">> }

NextPriority ==
    \/ \E i \in 1..Len(PriorityRoutes) : Insert(PriorityRoutes[i], i)
    \/ \E p \in PriorityPaths : Find(p)

SpecPriority == Init /\ [][NextPriority]_vars

-----------------------------------------------------------------------------
(* The routes of tests::multi_named_parameters_in_one_segment, registered  *)
(* in any order, each with its own payload.                                *)

SegmentRoutes ==
    << <<"/", ":", "n", "a", "m", "e">>,
       <<"/", ":", "n", "a", "m", "e", ".", ":", "e", "x", "t">>,
       <<"/", ":", "n", "a", "m", "e", ".", ":", "a", "0", ".", ":", "b", "0">>,
       <<"/", ":", "n", "a", "m", "e", ".", ":", "a", "0", "-", ":", "b", "1">>,
       <<"/", ":", "n", "a", "m", "e", "-", ":", "a", "1", "-", ":", "b", "1">>,
       <<"/", ":", "n", "a", "m", "e", "-", "*", "a", "n", "y">>,
       <<"/", ":", "n", "a", "m", "e", "/", ":", "a", "g", "e">> >>

\* Values without '.', '-' or '/', one for each marker position.
SegmentValues == << <<"v">>, <<"w", "x">>, <<"y">>, <<"z">> >>

\* The request a route stands for: its k-th marker is given the k-th value;
\* the catch-all of route 6 is given 'wx-y/z'.
SegmentPath(i) ==
    IF i = 6
    THEN <<"/">> \o SegmentValues[1] \o <<"-">> \o SegmentValues[2] \o <<"-">>
             \o SegmentValues[3] \o <<"/">> \o SegmentValues[4]
    ELSE Concretize(SegmentRoutes[i], SegmentValues)

SegmentPaths == {SegmentPath(i) : i \in 1..Len(SegmentRoutes)}

NextSegments ==
    \/ \E i \in 1..Len(SegmentRoutes) : Insert(SegmentRoutes[i], i)
    \/ \E p \in SegmentPaths : Find(p)

SpecSegments == Init /\ [][NextSegments]_vars

-----------------------------------------------------------------------------
(* The routes of tests::new_tree that share the parameter node below       *)
(* '/users/', one more that shares a terminal node with the first, and a   *)
(* catch-all below the parameter.                                          *)

UsersUidOrg == <<"/", "u", "s", "e", "r", "s", "/", ":", "u", "i", "d", "/", ":", "o", "r", "g">>

UsersAny == <<"/", "u", "s", "e", "r", "s", "/", ":", "i", "d", "/", "*", "a", "n", "y">>

NamePatterns == { UsersIdOrg, UsersRepos, UsersUidOrg, UsersAny }

UsersFundon == <<"/", "u", "s", "e", "r", "s", "/">> \o Fundon

NamePaths ==
    { UsersFundon,
      UsersFundon \o <<"/">>,
      UsersFundon \o <<"/", "r", "e", "p", "o">>,
      UsersFundon \o <<"/", "r", "e", "p", "o", "s">>,
      UsersFundon \o <<"/", "r", "e", "p", "o", "s", "/", "x">> }

NextNames ==
    \/ \E P \in NamePatterns, v \in Payloads : Insert(P, v)
    \/ \E p \in NamePaths : Find(p)

SpecNames == Init /\ [][NextNames]_vars

-----------------------------------------------------------------------------
(* Routes at the root: the root itself, a root-level parameter and catch-all,
   a static route, and a catch-all below the parameter; requests include the
   empty path and paths that do not begin with '/'. *)

AnyRoute == <<"/", "*", "a", "n", "y">>
DirRoute == <<"/", ":", "d", "i", "r">>
DirRest == <<"/", ":", "d", "i", "r", "/", "*", "r", "e", "s", "t">>

RootPatterns == { Slash, AnyRoute, DirRoute, DirRest, <<"/", "a">> }

\* Requests that are empty or do not begin with '/'.
RelativePaths ==
    { <<>>, <<"a">>, <<"a", "/">>, <<"b", "/", "c">>,
      <<"*", "a", "n", "y">>, <<":", "d", "i", "r">> }

RootPaths ==
    RelativePaths \cup
    { Slash, <<"/", "a">>, <<"/", "a", "/">>, <<"/", "a", "/", "b">>, <<"/", "b">> }

NextRoot ==
    \/ \E P \in RootPatterns, v \in Payloads : Insert(P, v)
    \/ \E p \in RootPaths : Find(p)

SpecRoot == Init /\ [][NextRoot]_vars
-----------------------------------------------------------------------------
(* Routes with a delimiter inside a segment, and requests in which the
   delimiter occurs more than once. *)

XDotY == <<"/", ":", "x", ".", ":", "y">>
XDashY == <<"/", ":", "x", "-", ":", "y">>

SplitPatterns == { XDotY, XDashY, <<"/", ":", "x">> }

SplitPaths ==
    { <<"/", ".", "a", ".", "b">>,
      <<"/", "-", "a", "-", "b">>,
      <<"/", "a", ".", "b", ".", "c">>,
      <<"/", "a", ".", ".", "c">>,
      <<"/", "a", ".", "b">>,
      <<"/", "a", "-", "b">>,
      <<"/", "a">> }

NextSplit ==
    \/ \E P \in SplitPatterns, v \in Payloads : Insert(P, v)
    \/ \E p \in SplitPaths : Find(p)

SpecSplit == Init /\ [][NextSplit]_vars
-----------------------------------------------------------------------------
(* Routes that give one node children of every class: below 'a' the static
   children 'b' and 'c', a child keyed '/', a parameter (with a static child
   that has a catch-all) and a catch-all. *)

SiblingRoutes ==
    << <<"/", "a">>,
       <<"/", "a", "b">>,
       <<"/", "a", "c">>,
       <<"/", "a", "/", "b">>,
       <<"/", "a", ":", "x", "y", "*", "r">>,
       <<"/", "a", "*", "r">> >>

SiblingPaths ==
    {SiblingRoutes[i] : i \in 1..Len(SiblingRoutes)} \cup
    { <<"/", "a", "/">>, <<"/", "a", "x">>, <<"/", "a", "x", "y", "z">> }

\* Each route has its own payload.
NextSiblings ==
    \/ \E i \in 1..Len(SiblingRoutes) : Insert(SiblingRoutes[i], i)
    \/ \E p \in SiblingPaths : Find(p)

SpecSiblings == Init /\ [][NextSiblings]_vars
-----------------------------------------------------------------------------
(* Routes whose parameter node gets two delimiter children, registered in
   any order. *)

NameExt == <<"/", ":", "n", "a", "m", "e", ".", ":", "e", "x", "t">>
NameRest == <<"/", ":", "n", "a", "m", "e", "-", ":", "r", "e", "s", "t">>

OrderRoutes == << NameExt, NameRest, <<"/", ":", "n", "a", "m", "e">> >>

OrderPaths ==
    { <<"/", "a", ".", "b", "-", "c">>,
      <<"/", "a", "-", "b", ".", "c">>,
      <<"/", "a", ".", "b">>,
      <<"/", "a", "-", "b">>,
      <<"/", "a">> }

NextOrder ==
    \/ \E i \in 1..Len(OrderRoutes), v \in Payloads : Insert(OrderRoutes[i], v)
    \/ \E p \in OrderPaths : Find(p)

SpecOrder == Init /\ [][NextOrder]_vars
-----------------------------------------------------------------------------
(* What a Find returned *)

Found == IsSome(result)

\* The payload of the returned node, as Option: None when the node has no
\* metadata or its metadata has no payload.
ResultPayload ==
    IF IsSome(result[1].node.data) THEN result[1].node.data[1].data ELSE None

ResultParams == result[1].params

Chars(s) == {s[k] : k \in 1..Len(s)}

\* The pattern of the only Insert calls so far, when there is just one.
Alone(P) == Registered = {P}

-----------------------------------------------------------------------------
(* C1: round trip *)

\* The request a pattern stands for: '/', then the pattern's tokens with each
\* marker replaced by its value.
Canonical(P, vals) == Slash \o Subst(PatTokens(P), vals)

\* The character that follows the k-th marker in P, as Option.
Following(P, k) ==
    LET i == CHOOSE j \in Markers(P) : MarkerRank(P, j) = k
    IN  IF i < Len(PatTokens(P)) THEN Some(PatTokens(P)[i + 1].buf[1]) ELSE None

\* Values are non-empty; a parameter's value has no '/' and not the
\* character that follows the parameter.
Fits(P, vals) ==
    \A k \in 1..Len(vals) :
        /\ vals[k] # <<>>
        /\ MarkerKind(P, k) = "Parameter" =>
              /\ "/" \notin Chars(vals[k])
              /\ IsSome(Following(P, k)) => Following(P, k)[1] \notin Chars(vals[k])

\* The last call was a Find on a tree that holds the pattern P alone.
FoundAlone(P) == Alone(P) /\ last.op = "find"

RoundTrips(P, vals) ==
    /\ Found
    /\ ResultPayload = PayloadOf(P)
    /\ ResultParams = Bindings(P, vals)

\* C1 (as stated): for every pattern P beginning with '/' and every choice of
\* values for its markers, after Insert(P, payload) on a tree of its own,
\* Find(concretize(P)) returns payload and exactly the chosen bindings in
\* pattern order.
C1_RoundTripAnyValues ==
    \A P \in Registered :
        FoundAlone(P) =>
            \A vals \in Choices(P, ParamValues, CatchValues) :
                last.path = Concretize(P, vals) => RoundTrips(P, vals)

\* C1 (amended): for every pattern P beginning with '/', registered alone,
\* and every choice of non-empty values in which a parameter's value has no
\* '/' and not the character that follows the parameter in P, Find of '/'
\* followed by P's tokens with each marker replaced by its value returns the
\* payload and exactly the chosen bindings in pattern order (no binding list
\* when P has no marker).
C1_RoundTrip ==
    \A P \in Registered :
        FoundAlone(P) =>
            \A vals \in Choices(P, ParamValues, CatchValues) :
                (last.path = Canonical(P, vals) /\ Fits(P, vals)) => RoundTrips(P, vals)

\* C1 witness: '/:x.:y' alone, Find('/b.b.') returned x = 'b', y = 'b.'.
C1_Witness ==
    LET P == <<"/", ":", "x", ".", ":", "y">>
        vals == << <<"b">>, <<"b", ".">> >>
    IN  /\ FoundAlone(P)
        /\ last.path = Canonical(P, vals)
        /\ Fits(P, vals)
        /\ RoundTrips(P, vals)

-----------------------------------------------------------------------------
(* C2: static exactness under edge splitting *)

IsStatic(P) == Markers(P) = {}

\* C2: in a tree built from marker-free patterns only, Find(p) is a match
\* exactly when p is one of the inserted patterns, and then with that
\* pattern's own payload; '/con', '/cona', '/no', '/' and every split point
\* that was never inserted are not found.
C2_StaticExact ==
    (last.op = "find" /\ \A P \in Registered : IsStatic(P)) =>
        /\ Found <=> last.path \in Registered
        /\ Found => ResultPayload = PayloadOf(last.path)

-----------------------------------------------------------------------------
(* C3: priority order with fall-through *)

\* The node with only its child keyed c.
Restrict(t, c) ==
    [t EXCEPT !.indices = <<c>>, !.nodes = <<t.nodes[KeyIndex(t.indices, c) + 1]>>]

\* A payload-carrying match.
Carrying(r) ==
    /\ IsSome(r)
    /\ IsSome(r[1].node.data)
    /\ IsSome(r[1].node.data[1].data)

\* The root has a static child keyed c, a parameter child and a catch-all
\* child.
ThreeClasses(t, c) ==
    /\ c \notin {":", "*"}
    /\ {c, ":", "*"} \subseteq Chars(t.indices)

\* What the priority order asks of Find(p) at the root: the first of the
\* static, parameter and catch-all attempts that carries a payload.
ByPriority(t, p) ==
    LET st == find(Restrict(t, p[2]), p)
        pa == find(Restrict(t, ":"), p)
        ca == find(Restrict(t, "*"), p)
    IN  IF Carrying(st) THEN st
        ELSE IF Carrying(pa) THEN pa
        ELSE IF Carrying(ca) THEN ca
        ELSE None

\* C3: at a node (here the root) with a static child keyed by the next
\* character, a parameter child and a catch-all child, Find returns the static
\* subtree's payload-carrying match if there is one, else the parameter
\* child's, else the catch-all child's, and not-found only if all three fail.
C3_PriorityFallThrough ==
    (last.op = "find" /\ Len(last.path) > 1 /\ ThreeClasses(tree, last.path[2])) =>
        result = ByPriority(tree, last.path)

-----------------------------------------------------------------------------
(* C4: trailing-slash aliasing *)

Filepath == <<"f", "i", "l", "e", "p", "a", "t", "h">>

\* What C4 says of '/src' and '/src/a/b' with '/src/*filepath' alone.
SrcOthers ==
    /\ last.path = <<"/", "s", "r", "c">> => ~Found
    /\ last.path = <<"/", "s", "r", "c", "/", "a", "/", "b">> =>
          /\ Found
          /\ ResultPayload = PayloadOf(SrcFilepath)
          /\ ResultParams = Some(<< <<Filepath, <<"a", "/", "b">> >> >>)

\* C4 (as stated): with only '/src/*filepath' inserted, Find('/src/') matches
\* the catch-all's payload with the bindings [('filepath', '')]; Find('/src')
\* is not-found; Find('/src/a/b') matches with filepath = 'a/b'.
C4_AliasBindsEmpty ==
    FoundAlone(SrcFilepath) =>
        /\ last.path = SrcDir =>
              /\ Found
              /\ ResultPayload = PayloadOf(SrcFilepath)
              /\ ResultParams = Some(<< <<Filepath, <<>> >> >>)
        /\ SrcOthers

\* C4 (amended): with only '/src/*filepath' inserted, Find('/src/') matches
\* the catch-all node and its payload with no bindings at all; Find('/src')
\* is not-found; Find('/src/a/b') matches with filepath = 'a/b'.
C4_AliasBindsNothing ==
    FoundAlone(SrcFilepath) =>
        /\ last.path = SrcDir =>
              /\ Found
              /\ result[1].node.path = <<"*">>
              /\ ResultPayload = PayloadOf(SrcFilepath)
              /\ ResultParams = None
        /\ SrcOthers

\* C4 witness: Find('/src/') answered by the catch-all of '/src/*filepath'.
C4_Witness ==
    /\ FoundAlone(SrcFilepath)
    /\ last.path = SrcDir
    /\ Found
    /\ result[1].node.path = <<"*">>

-----------------------------------------------------------------------------
(* C5: trailing-slash resolution *)

\* The node a path is consumed at exactly, walking static children only from
\* a node whose label the path starts with; None if there is none.
RECURSIVE StaticWalk(_, _)
StaticWalk(node, path) ==
    LET o == Len(node.path)
        rest == SplitOff(path, o)
        j == KeyIndex(node.indices, rest[1])
    IN  IF Len(path) < o \/ Take(path, o) # node.path THEN None
        ELSE IF Len(path) = o THEN Some(node)
        ELSE IF rest[1] \in {":", "*"} \/ j < 0 THEN None
        ELSE StaticWalk(node.nodes[j + 1], rest)

HasPayload(n) == IsSome(n.data) /\ IsSome(n.data[1].data)

HasCatchAll(n) == "*" \in Chars(n.indices)

CatchAllOf(n) == n.nodes[KeyIndex(n.indices, "*") + 1]

\* C5: when the path is consumed exactly at a static node below the root
\* whose label ends in '/', reached through static nodes only, (a) the node is
\* the match if it carries a payload; (b) otherwise its catch-all child, if it
\* has one, is the returned node and there are no bindings; (c) otherwise the
\* result is not-found.
C5_TrailingSlash ==
    LET w == StaticWalk(tree, last.path)
        n == w[1]
    IN  (last.op = "find" /\ Len(last.path) > 1 /\ IsSome(w) /\ n.path[Len(n.path)] = "/") =>
            IF HasPayload(n)
            THEN Found /\ result[1].node = n /\ ResultParams = None
            ELSE IF HasCatchAll(n)
            THEN Found /\ result[1].node = CatchAllOf(n) /\ ResultParams = None
            ELSE ~Found

-----------------------------------------------------------------------------
(* C6: several parameters in one segment *)

\* The values the request of route i gives its markers.
SegmentBound(i) ==
    IF i = 6
    THEN << SegmentValues[1],
            SegmentValues[2] \o <<"-">> \o SegmentValues[3] \o <<"/">> \o SegmentValues[4] >>
    ELSE Take(SegmentValues, Len(Names(SegmentRoutes[i])))

\* C6: with the seven routes all registered, the request of each route (its
\* markers given non-empty values without '.', '-' or '/') resolves to that
\* route and binds its names to the values in order.
C6_SegmentsResolve ==
    (last.op = "find" /\ Cardinality(routes) = Len(SegmentRoutes)) =>
        \A i \in 1..Len(SegmentRoutes) :
            last.path = SegmentPath(i) =>
                /\ Found
                /\ ResultPayload = Some(i)
                /\ ResultParams = Bindings(SegmentRoutes[i], SegmentBound(i))

-----------------------------------------------------------------------------
(* C7: parameter values are single-segment tokens *)

\* The values a successful Find bound to Parameter nodes: all of them but
\* the one a catch-all node captured, which is the last.
ParameterValues(r) ==
    LET node == r[1].node
        ps == r[1].params[1]
        vs == [i \in 1..Len(ps) |-> ps[i][2]]
    IN  IF IsNone(r[1].params) THEN <<>>
        ELSE IF node.path = <<"*">> /\ Len(ps) = Len(node.data[1].params[1])
        THEN Take(vs, Len(vs) - 1)
        ELSE vs

\* C7: in every successful Find each value bound to a Parameter node is
\* non-empty and has no '/'.
C7_SingleSegmentValues ==
    (last.op = "find" /\ Found) =>
        \A i \in 1..Len(ParameterValues(result)) :
            /\ ParameterValues(result)[i] # <<>>
            /\ "/" \notin Chars(ParameterValues(result)[i])

-----------------------------------------------------------------------------
(* Nodes by position *)

\* The node at a position: a sequence of 1-based child positions.
RECURSIVE NodeAt(_, _)
NodeAt(node, at) ==
    IF at = <<>> THEN node ELSE NodeAt(node.nodes[Head(at)], Tail(at))

\* The positions of all nodes of a tree.
RECURSIVE Positions(_)
Positions(node) ==
    {<<>>} \cup UNION {{<<j>> \o q : q \in Positions(node.nodes[j])} :
                          j \in 1..Len(node.nodes)}

\* A tree without its metadata: labels, dispatch keys and child lists.
RECURSIVE Shape(_)
Shape(node) ==
    [path |-> node.path, indices |-> node.indices,
     nodes |-> [j \in 1..Len(node.nodes) |-> Shape(node.nodes[j])]]

\* The labels a pattern's tokens put in the tree, end to end.
RECURSIVE KeyOf(_)
KeyOf(toks) == IF Len(toks) = 0 THEN <<>> ELSE toks[1].buf \o KeyOf(Tail(toks))

\* The position of the node whose labels, from below the root, spell key;
\* None if no node ends there.
RECURSIVE Locate(_, _)
Locate(node, key) ==
    LET j == KeyIndex(node.indices, key[1])
        ch == node.nodes[j + 1]
        o == Len(ch.path)
        r == Locate(ch, SplitOff(key, o))
    IN  IF Len(key) = 0 THEN Some(<<>>)
        ELSE IF j < 0 \/ Len(key) < o \/ Take(key, o) # ch.path \/ IsNone(r) THEN None
        ELSE Some(<<j + 1>> \o r[1])

\* The position of a pattern's terminal node.
Terminal(t, P) == Locate(t, KeyOf(PatTokens(P)))

-----------------------------------------------------------------------------
(* C8: last write wins *)

NamesOption(P) == IF Len(Names(P)) = 0 THEN None ELSE Some(Names(P))

\* The payload a find result carries, as Option.
PayloadIn(r) == IF IsSome(r[1].node.data) THEN r[1].node.data[1].data ELSE None

\* This step is Insert(P, b) of a pattern P that was registered before.  It
\* keeps every label, dispatch key and child list, and the metadata of every
\* node but P's terminal node, where it replaces the payload and the names.
RewritesTerminal(P, b) ==
    LET at == Terminal(tree, P)
        old == NodeAt(tree, at[1]).data[1]
    IN  /\ IsSome(at)
        /\ Shape(tree') = Shape(tree)
        /\ \A q \in Positions(tree) \ {at[1]} : NodeAt(tree', q).data = NodeAt(tree, q).data
        /\ IsSome(NodeAt(tree, at[1]).data)
        /\ old.key
        /\ NodeAt(tree', at[1]).data =
               Some([old EXCEPT !.data = Some(b), !.params = NamesOption(P)])

\* The tree with the payload of the node at a position replaced by v.
RECURSIVE WithPayload(_, _, _)
WithPayload(node, at, v) ==
    IF at = <<>>
    THEN [node EXCEPT !.data = Some([node.data[1] EXCEPT !.data = Some(v)])]
    ELSE [node EXCEPT !.nodes[Head(at)] = WithPayload(node.nodes[Head(at)], Tail(at), v)]

\* Every request that resolved to P's terminal node before the step returns
\* b after it.  A request resolves to the node when, with the node's payload
\* replaced by 0, which no Insert stores, Find returns 0.
ResolvesToLast(P, b) ==
    LET marked == WithPayload(tree, Terminal(tree, P)[1], 0)
    IN  \A p \in Paths :
            LET r == find(marked, p)
                s == find(tree', p)
            IN  (IsSome(r) /\ PayloadIn(r) = Some(0)) =>
                    (IsSome(s) /\ PayloadIn(s) = Some(b))

\* C8: Insert(P, b) that follows Insert(P, a), directly or after other
\* Inserts, creates no node and changes no label, child list or dispatch key;
\* it only replaces the payload and the parameter names at P's terminal node,
\* and every path that resolved to that node returns b afterwards.
C8_LastWriteWins ==
    [][(last.op = "insert" /\ last'.op = "insert" /\ IsSome(last'.prev)) =>
           /\ RewritesTerminal(last'.path, last'.data)
           /\ ResolvesToLast(last'.path, last'.data)]_vars

\* C8 witness: '/:x.:y' was inserted with payload 1, another pattern after
\* it, and then '/:x.:y' again with payload 2.
C8_Witness ==
    /\ last.op = "insert"
    /\ last.path = <<"/", ":", "x", ".", ":", "y">>
    /\ last.prev = Some(1)
    /\ last.data = 2
    /\ Cardinality(routes) = 2
    /\ IsSome(Terminal(tree, last.path))
    /\ NodeAt(tree, Terminal(tree, last.path)[1]).data[1].data = Some(2)

-----------------------------------------------------------------------------
(* C9: root handling *)

\* This step is Insert('/', v): the root gets the payload and no names, and
\* nothing else changes.
StoresOnRoot(v) ==
    /\ tree'.path = tree.path
    /\ tree'.indices = tree.indices
    /\ tree'.nodes = tree.nodes
    /\ tree'.data = Some([key |-> TRUE, kind |-> "Root", data |-> Some(v), params |-> None])

\* What a Find must have returned as far as the root is concerned.
RootFound ==
    /\ (last.path = Slash /\ Slash \in Registered) =>
          /\ result = Some([node |-> tree, params |-> None])
          /\ ResultPayload = PayloadOf(Slash)
    /\ (Registered = {Slash, RootAll} /\ Len(last.path) > 1) =>
          /\ Found
          /\ result[1].node.path = <<"*">>
          /\ ResultPayload = PayloadOf(RootAll)
          /\ ResultParams = Some(<< << <<>>, SplitOff(last.path, 1) >> >>)
    /\ (last.path = Slash /\ Slash \notin Registered /\ ~HasCatchAll(tree)) => ~Found

-----------------------------------------------------------------------------
(* C10: binding names come from the terminal node, positionally *)

\* Find(p) on t resolves to the node at a position: with that node's payload
\* replaced by 0, which no Insert stores, Find returns 0.
ResolvesTo(t, p, at) ==
    LET r == find(WithPayload(t, at, 0), p)
    IN  IsSome(r) /\ PayloadIn(r) = Some(0)

\* The i-th binding is the i-th of names with the i-th value captured: the
\* values, put in place of the markers of P, spell the request (a catch-all
\* that the trailing '/' stands for has no binding and stands for nothing).
BoundInOrder(P, names, bs, path) ==
    /\ Len(bs) <= Len(Names(P))
    /\ \A i \in 1..Len(bs) : bs[i][1] = names[i]
    /\ Canonical(P, [i \in 1..Len(Names(P)) |-> IF i <= Len(bs) THEN bs[i][2] ELSE <<>>])
           = path

\* Find(path) returned res with bindings: it resolved to the terminal node of
\* a registered pattern, and binds the names stored there in order.
NamesFromTerminal(path, res) ==
    \E P \in Registered :
        /\ ResolvesTo(tree, path, Terminal(tree, P)[1])
        /\ BoundInOrder(P, res[1].node.data[1].params[1], res[1].params[1], path)

\* The example of tests::new_tree.
NamesOfUsers(path, res) ==
    Registered = {UsersIdOrg, UsersRepos} =>
        /\ path = UsersFundon \o <<"/", "r", "e", "p", "o">> =>
              res[1].params = Some(<< << <<"i", "d">>, Fundon >>,
                                      << <<"o", "r", "g">>, <<"r", "e", "p", "o">> >> >>)
        /\ path = UsersFundon \o <<"/", "r", "e", "p", "o", "s">> =>
              res[1].params = Some(<< << <<"u", "s", "e", "r", "_", "i", "d">>, Fundon >> >>)

\* After Insert(P), Find(path) that resolves to P's terminal node binds P's
\* names.
NamesOfLast(P, path, res) ==
    ResolvesTo(tree, path, Terminal(tree, P)[1]) =>
        BoundInOrder(P, Names(P), res[1].params[1], path)

\* C10: in every successful Find the i-th binding pairs the i-th name stored
\* at the returned terminal node with the i-th captured value; the names
\* stored are those of the pattern last inserted there (a Find right after
\* Insert(P) that resolves to P's terminal node binds P's names); '/users/:id/:org'
\* and '/users/:user_id/repos' each report their own names.
C10_NamesFromTerminal ==
    [][(last'.op = "find" /\ IsSome(result') /\ IsSome(result'[1].params)) =>
          /\ NamesFromTerminal(last'.path, result')
          /\ NamesOfUsers(last'.path, result')
          /\ last.op = "insert" => NamesOfLast(last.path, last'.path, result')]_vars

\* C10 witness: '/users/:id/:org' then '/users/:uid/:org' were inserted, and
\* Find('/users/fundon/repo') bound uid and org.
C10_Witness ==
    /\ last.op = "find"
    /\ Registered = {UsersIdOrg, UsersUidOrg}
    /\ last.path = UsersFundon \o <<"/", "r", "e", "p", "o">>
    /\ ResultParams = Some(<< << <<"u", "i", "d">>, Fundon >>,
                              << <<"o", "r", "g">>, <<"r", "e", "p", "o">> >> >>)

-----------------------------------------------------------------------------
(* C11: Find is read-only *)

-----------------------------------------------------------------------------
(* C12: paths that do not begin with '/' *)

\* C12: a Find of the empty path, or of a path whose first character is not
\* '/', returns not-found on every tree built by Inserts, also when the root
\* is registered and has a parameter child or a catch-all child.
C12_RelativeNotFound ==
    (last.op = "find" /\ last.path \in RelativePaths) => ~Found

\* Such a path was looked up on a tree whose root is registered and has a
\* static, a parameter and a catch-all child.
C12_Witness ==
    /\ last.op = "find"
    /\ last.path \in RelativePaths
    /\ last.path # <<>>
    /\ {Slash, AnyRoute, DirRoute, <<"/", "a">>} \subseteq Registered
    /\ tree.indices = <<"a", ":", "*">>
    /\ ~Found

-----------------------------------------------------------------------------
(* C13: trailing-slash aliasing at any static node *)

\* The static nodes a path is consumed at exactly, however they are reached:
\* through static labels the path starts with, and through parameter nodes
\* that take a non-empty value without '/'.
RECURSIVE ConsumedAt(_, _)
ConsumedAt(node, path) ==
    LET o == Len(node.path)
        below(rest) == UNION {ConsumedAt(node.nodes[j], rest) :
                                 j \in 1..Len(node.nodes)}
    IN  IF node.path[1] = "*" THEN {}
        ELSE IF node.path[1] = ":"
        THEN UNION {below(SplitOff(path, i)) :
                       i \in {k \in 1..(Len(path) - 1) :
                                 "/" \notin Chars(Take(path, k))}}
        ELSE IF Len(path) < o \/ Take(path, o) # node.path THEN {}
        ELSE IF Len(path) = o THEN {node}
        ELSE below(SplitOff(path, o))

\* C13: whenever the path of a Find is consumed exactly at a static node that
\* has no payload, whose label ends in '/', and that has a catch-all child,
\* the Find returns the catch-all child and its payload; the node may be the
\* root ('/' with only '/*any' registered) or the child of a parameter node
\* ('/a/' with only '/:dir/*rest' registered).
C13_AliasEverywhere ==
    last.op = "find" =>
        \A n \in ConsumedAt(tree, last.path) :
            (~HasPayload(n) /\ n.path[Len(n.path)] = "/" /\ HasCatchAll(n)) =>
                /\ Found
                /\ result[1].node = CatchAllOf(n)
                /\ ResultPayload = CatchAllOf(n).data[1].data

-----------------------------------------------------------------------------
(* C14: a match is a node some Insert ended at *)

\* The nodes at which the Insert of a registered pattern ended.
Termini ==
    {NodeAt(tree, Terminal(tree, P)[1]) :
        P \in {Q \in Registered : IsSome(Terminal(tree, Q))}}

\* C14: when a Find returns a match, the returned node is the terminal node
\* of a registered pattern, it is a key node and it carries a payload; a
\* node no Insert ended at (one made by a split, a pass-through static node,
\* a parameter node that is only a prefix of longer patterns) is never
\* returned as a match.
C14_MatchAtTerminus ==
    (last.op = "find" /\ Found) =>
        /\ result[1].node \in Termini
        /\ IsSome(result[1].node.data)
        /\ result[1].node.data[1].key
        /\ HasPayload(result[1].node)

-----------------------------------------------------------------------------
(* C15: split positions inside a parameter *)

\* The payload-carrying nodes a path can end at when a parameter node may end
\* its non-empty, '/'-free value before any occurrence of a character that
\* keys one of its static children.
RECURSIVE SplitMatches(_, _)
SplitMatches(node, path) ==
    LET o == Len(node.path)
        self == IF IsSome(node.data) /\ node.data[1].key /\ HasPayload(node)
                THEN {node} ELSE {}
        keyed(rest) == UNION {SplitMatches(node.nodes[j], rest) :
                                 j \in {k \in 1..Len(node.nodes) :
                                           node.indices[k] = rest[1]}}
        below(rest) == UNION {SplitMatches(node.nodes[j], rest) :
                                 j \in {k \in 1..Len(node.nodes) :
                                           node.indices[k] \in {rest[1], ":", "*"}}}
    IN  IF Len(path) = 0 THEN {}
        ELSE IF node.path[1] = "*" THEN self
        ELSE IF node.path[1] = ":"
        THEN (IF "/" \notin Chars(path) THEN self ELSE {}) \cup
             UNION {keyed(SplitOff(path, i)) :
                       i \in {k \in 1..(Len(path) - 1) :
                                 "/" \notin Chars(Take(path, k))}}
        ELSE IF Len(path) < o \/ Take(path, o) # node.path THEN {}
        ELSE IF Len(path) = o THEN self
        ELSE below(SplitOff(path, o))

\* C15: a Find returns a match whenever some split position with a non-empty
\* value leads to a payload-carrying node, also when the delimiter of a
\* parameter node's static child occurs more than once in the segment and
\* only a later occurrence leads to a match ('/.a.b' with only '/:x.:y'
\* registered matches with x = '.a', y = 'b').
C15_SplitBacktracking ==
    (last.op = "find" /\ SplitMatches(tree, last.path) # {}) => Found

-----------------------------------------------------------------------------
(* C16: Inserts never lose routes *)

\* C16: across an Insert(Q, v), every path that Find matched before the
\* Insert is matched after it, with the same payload and bindings unless the
\* path now resolves to Q's terminal node or Q was registered before and is
\* overwritten.
C16_InsertsKeepRoutes ==
    [][last'.op = "insert" =>
         LET Q == last'.path
             at == Terminal(tree', Q)
         IN  \A p \in PriorityPaths :
                 LET before == find(tree, p)
                     after == find(tree', p)
                 IN  IsSome(before) =>
                         /\ IsSome(after)
                         /\ \/ /\ PayloadIn(after) = PayloadIn(before)
                               /\ after[1].params = before[1].params
                            \/ IsSome(at) /\ ResolvesTo(tree', p, at[1])
                            \/ Q \in Registered]_vars

-----------------------------------------------------------------------------
(* C17: sibling keys *)

\* The 1-based positions of a node's children whose label begins with c.
ChildrenKeyed(n, c) == {j \in 1..Len(n.nodes) : n.nodes[j].path[1] = c}

\* C17: in every node of the tree there are as many dispatch keys as
\* children, the i-th key is the first character of the i-th child's label,
\* and no two children have the same key; so a node has at most one
\* parameter child, at most one catch-all child, and no two static children
\* whose labels begin with the same character.
C17_SiblingKeys ==
    \A at \in Positions(tree) :
        LET n == NodeAt(tree, at)
        IN  /\ Len(n.indices) = Len(n.nodes)
            /\ \A i \in 1..Len(n.nodes) :
                   /\ Len(n.nodes[i].path) > 0
                   /\ n.indices[i] = n.nodes[i].path[1]
            /\ \A i, j \in 1..Len(n.indices) :
                   n.indices[i] = n.indices[j] => i = j
            /\ \A c \in Chars(n.indices) \cup {":", "*"} :
                   Cardinality(ChildrenKeyed(n, c)) <= 1

\* A node has two static children, a child keyed '/', a parameter child and
\* a catch-all child, and below the root a node was split.
C17_Witness ==
    /\ last.op = "insert"
    /\ \E at \in Positions(tree) :
           /\ Len(NodeAt(tree, at).indices) = 5
           /\ {":", "*", "/"} \subseteq Chars(NodeAt(tree, at).indices)
           /\ IsNone(NodeAt(tree, at).data)

-----------------------------------------------------------------------------
(* C18: insert order *)

\* The tree built from a new tree by inserting, in the order of rs from its
\* i-th route on, the routes of rs that are registered, each with its payload.
RECURSIVE InOrder(_, _, _)
InOrder(t, rs, i) ==
    IF i > Len(rs) THEN t
    ELSE IF rs[i] \in Registered
    THEN InOrder(insert(t, rs[i], PayloadOf(rs[i])[1]), rs, i + 1)
    ELSE InOrder(t, rs, i + 1)

\* C18: the order of the Inserts does not affect a lookup: a Find on the
\* tree as it was built returns the same payload and the same bindings as on
\* the tree built from the same routes in the order of OrderRoutes; so the
\* choice between '/:name.:ext' and '/:name-:rest' for '/a.b-c' does not
\* depend on which was inserted first.
C18_OrderIndependent ==
    last.op = "find" =>
        LET other == find(InOrder(PathTree_new(Slash, NodeMetadata_new), OrderRoutes, 1),
                          last.path)
        IN  /\ Found <=> IsSome(other)
            /\ Found => /\ PayloadIn(result) = PayloadIn(other)
                        /\ result[1].params = other[1].params

-----------------------------------------------------------------------------
(* C19: the order of a node's children *)

\* The class of a dispatch key, in the order the classes are kept.
KeyRank(c) == IF c = "*" THEN 3 ELSE IF c = ":" THEN 2 ELSE IF c = "/" THEN 1 ELSE 0

\* The static keys other than '/', in their order.
StaticKeys(indices) == SelectSeq(indices, LAMBDA c : KeyRank(c) = 0)

\* Static keys first, then '/', then ':', then '*', each of the three once.
KeysInOrder(indices) ==
    \A i, j \in 1..Len(indices) :
        i < j => /\ KeyRank(indices[i]) <= KeyRank(indices[j])
                 /\ KeyRank(indices[j]) > 0 => KeyRank(indices[i]) < KeyRank(indices[j])

\* What the static branch of Find takes the catch-all child, the parameter
\* child and the static children of a node to be (lines 340-372) is what
\* they are; a parameter or catch-all node has static children only.
ClassesAsFound(n) ==
    LET l0 == Len(n.indices)
        has_star == 0 < l0 /\ n.indices[l0] = "*"
        l1 == IF has_star THEN l0 - 1 ELSE l0
        has_colon == 0 < l1 /\ n.indices[l1] = ":"
        l2 == IF has_colon THEN l1 - 1 ELSE l1
    IN  IF n.path[1] \in {":", "*"}
        THEN \A j \in 1..l0 : n.nodes[j].path[1] \notin {":", "*"}
        ELSE /\ has_star <=> \E j \in 1..l0 : n.nodes[j].path[1] = "*"
             /\ has_colon <=> \E j \in 1..l0 : n.nodes[j].path[1] = ":"
             /\ has_star => n.nodes[l1 + 1].path[1] = "*"
             /\ has_colon => n.nodes[l2 + 1].path[1] = ":"
             /\ \A j \in 1..l2 : n.nodes[j].path[1] \notin {":", "*"}

\* The labels from below the root down to the node at a position.
RECURSIVE FullKey(_, _)
FullKey(node, at) ==
    IF at = <<>> THEN <<>>
    ELSE node.nodes[Head(at)].path \o FullKey(node.nodes[Head(at)], Tail(at))

\* An Insert keeps the static keys of every node in their order and puts a
\* new static key after them.
StaticsInInsertionOrder ==
    \A at \in Positions(tree) :
        LET to == Locate(tree', FullKey(tree, at))
            old == StaticKeys(NodeAt(tree, at).indices)
            new == StaticKeys(NodeAt(tree', to[1]).indices)
        IN  /\ IsSome(to)
            /\ Len(new) \in {Len(old), Len(old) + 1}
            /\ Take(new, Len(old)) = old

\* C19: after any sequence of Inserts, in every node's dispatch keys the
\* static keys other than '/' come first, in the order of their insertion,
\* then the '/' key, then the ':' key, then the '*' key, so that '*' can only
\* be last and ':' last or just before '*'; Find takes no ':' or '*' child
\* for a static child and misses no parameter or catch-all child.
C19_ChildOrder ==
    /\ [](\A at \in Positions(tree) :
              /\ KeysInOrder(NodeAt(tree, at).indices)
              /\ ClassesAsFound(NodeAt(tree, at)))
    /\ [][last'.op = "insert" => StaticsInInsertionOrder]_vars

\* A key of each class was put before the keys of the classes after it: a
\* node has two static keys, then '/', ':' and '*', and the last Insert added
\* the second static key.
C19_Witness ==
    /\ last.op = "insert"
    /\ last.path = <<"/", "a", "c">>
    /\ IsNone(last.prev)
    /\ \E at \in Positions(tree) :
           NodeAt(tree, at).indices = <<"b", "c", "/", ":", "*">>

====
